---- MODULE Spec2Model ----
(***************************************************************************)
(* sdcadm: the DownloadImages procedure (lib/procedures/download-images)   *)
(* and the 'sdcadm experimental add-new-agent-svcs' subcommand             *)
(* (lib/cli/do_add_new_agent_svcs.js), modelled as state machines whose    *)
(* steps are the callbacks Node's single-threaded event loop runs.         *)
(***************************************************************************)
EXTENDS Integers, Sequences, FiniteSets, TLC

\* ---------------------------------------------------------------- bounds

\* Longest images array handed to DownloadImages.
MaxImages == 5

\* Most remote calls that fail during one DownloadImages.execute.
MaxFailures == 2

\* Most images of one array that are in state 'unactivated'.
MaxUnactivated == 1

\* Longest images array DownloadImages.summarize is applied to.
MaxSumImages == 2

\* How many of the agentNames (a prefix of the list) the subcommand handles.
NumAgents == 5

\* ------------------------------------------------------------- constants

\* vasync.queuev({concurrency: 4, ...})
Concurrency == 4

\* MIN_VALID_SAPI_VERSION = '20140703'
MIN_VALID_SAPI_VERSION == 20140703

\* ------------------------------------------------------- values and errors

ImageStates == {"unactivated", "active"}

\* Names an error coming back from IMGAPI can carry (err.name).
CauseNames == {"RemoteSourceError", "InternalError"}

\* An error object: the call it came from, the resource it is about, and the
\* name of its cause (we_cause.name for an SDCClientError).
Err(type, src, id, cause) ==
    [type |-> type, src |-> src, id |-> id, cause |-> cause]

\* new errors.SDCClientError(err, 'imgapi') with e.image = image.uuid
SDCClientError(src, image, cause) == Err("SDCClientError", src, image, cause)

\* What a callback receives as its error argument: nothing, one error object
\* itself, a MultiError built over a list, or the bare array of errors.
Undefined == [kind |-> "undefined", errs |-> << >>]
Verbatim(e) == [kind |-> "error", errs |-> <<e>>]
MultiError(es) == [kind |-> "MultiError", errs |-> es]
BareArray(es) == [kind |-> "Array", errs |-> es]

Min(a, b) == IF a < b THEN a ELSE b

\* -------------------------------------------------------------- variables

VARIABLES
    \* DownloadImages
    images,       \* this.images: the state of each image, in push order
    dpc,          \* where execute is: off, init, running, checking, returned
    ipc,          \* per image: queued, dispatched, deleting, importing, done
    queued,       \* q.queued: images waiting for a slot, FIFO
    npending,     \* q.npending
    closed,       \* q.closed
    errs,         \* errs: the collected failures
    workerCalls,  \* per image: how often importUpdateImage was invoked
    completions,  \* per image: how often onTaskComplete ran for it
    failed,       \* per image: whether onTaskComplete got an error for it
    deleteCalls,  \* per image: calls of sdcadm.imgapi.deleteImage
    importCalls,  \* per image: calls of adminImportRemoteImageAndWait
    endCount,     \* how often the queue emitted 'end'
    checkCalls,   \* calls of sdcadm.checkMissingExternalNics
    checkResult,  \* how that call came back: none, err, true, false
    printed,      \* how often the remediation message was printed
    files,        \* per image: img.files as the list of the files' sizes
    summary,      \* what summarize did: nothing yet, returned, threw
    \* do_add_new_agent_svcs
    apc,          \* where the subcommand is: off, init, getImgs, listing,
                  \* saving, creating, updating, returned
    img,          \* img.version as [branch, date], or NoImg
    listState,    \* per agent: the listServices query (idle, pending,
                  \* exists, missing, error)
    newAgentServices, \* the agents found missing, in the order found
    changes,      \* changes: the list built for the history
    savedChanges, \* the changes saveHistory was called with
    saveCalls,    \* calls of sdcadm.history.saveHistory
    saveState,    \* that call: idle, pending, ok, error
    history,      \* history: NoHistory until saveHistory succeeded
    submitted,    \* the inputs addAgentsServices handed to forEachParallel
    createState,  \* per agent: the createService call (idle, pending, ok,
                  \* error)
    createCalls,  \* per agent: calls of sdcadm.sapi.createService
    pipelineErr,  \* err of the pipeline's final callback
    updateCalls,  \* calls of sdcadm.history.updateHistory
    updateArg,    \* the record updateHistory was called with
    updateDone,   \* whether updateHistory's callback has fired
    updateErr,    \* err2 of that callback
    \* both
    cbCalls,      \* how often the caller's cb was invoked
    cbArg         \* with what

diVars == <<images, dpc, ipc, queued, npending, closed, errs, workerCalls,
            completions, failed, deleteCalls, importCalls, endCount, checkCalls,
            checkResult, printed>>
aaVars == <<apc, img, listState, newAgentServices, changes, savedChanges,
            saveCalls, saveState, history, submitted, createState,
            createCalls, pipelineErr, updateCalls, updateArg, updateDone,
            updateErr>>
sumVars == <<files, summary>>
cbVars == <<cbCalls, cbArg>>
vars == <<diVars, sumVars, aaVars, cbVars>>

N == Len(images)
Images == 1..N

\* ------------------------------------------------- DownloadImages.execute

\* The test taking any collected error for the signature.
remoteSourceErrAny(es) == Len(es) > 0

\* e.we_cause.name === 'RemoteSourceError' for some collected error
remoteSourceErr(es) ==
    \E k \in 1..Len(es) : es[k].cause = "RemoteSourceError"

\* var er = (errs.length === 1) ? errs[0] : new errors.MultiError(errs);
AggregatedError(es) ==
    IF Len(es) = 1 THEN Verbatim(es[1]) ELSE MultiError(es)

\* The 'end' handler, done(), on the collected errors es.
done(es) ==
    /\ endCount' = endCount + 1
    /\ IF Len(es) > 0
       THEN IF remoteSourceErr(es)
            THEN /\ checkCalls' = checkCalls + 1
                 /\ dpc' = "checking"
                 /\ UNCHANGED cbVars
            ELSE /\ cbCalls' = cbCalls + 1
                 /\ cbArg' = AggregatedError(es)
                 /\ dpc' = "returned"
                 /\ UNCHANGED checkCalls
       ELSE /\ cbCalls' = cbCalls + 1
            /\ cbArg' = Undefined
            /\ dpc' = "returned"
            /\ UNCHANGED checkCalls
    /\ UNCHANGED <<checkResult, printed>>

\* dispatchNext without the npending < concurrency test.
DispatchCountNoCap(nq, np) == nq

\* How many waiting tasks dispatchNext hands to workers: while there are
\* queued tasks and npending < concurrency.
DispatchCount(nq, np) == Min(nq, Concurrency - np)

\* dispatchNext emitting 'end' as soon as no task waits, tasks still pending.
dispatchNextEndsEarly(qs, np, pcs, es) ==
    IF Len(qs) = 0
    THEN /\ queued' = qs
         /\ npending' = np
         /\ ipc' = pcs
         /\ IF closed' THEN done(es)
            ELSE UNCHANGED <<endCount, checkCalls, dpc, cbVars, checkResult,
                             printed>>
    ELSE LET k == DispatchCount(Len(qs), np)
             go == {qs[j] : j \in 1..k}
         IN /\ queued' = SubSeq(qs, k + 1, Len(qs))
            /\ npending' = np + k
            /\ ipc' = [i \in DOMAIN pcs |->
                           IF i \in go THEN "dispatched" ELSE pcs[i]]
            /\ UNCHANGED <<endCount, checkCalls, dpc, cbVars, checkResult,
                           printed>>

\* dispatchNext handing out no further task once a task has failed.
dispatchNextFailFast(qs, np, pcs, es) ==
    IF np = 0 /\ (Len(qs) = 0 \/ Len(es) > 0)
    THEN /\ queued' = qs
         /\ npending' = np
         /\ ipc' = pcs
         /\ IF closed' THEN done(es)
            ELSE UNCHANGED <<endCount, checkCalls, dpc, cbVars, checkResult,
                             printed>>
    ELSE LET k == IF Len(es) > 0 THEN 0 ELSE DispatchCount(Len(qs), np)
             go == {qs[j] : j \in 1..k}
         IN /\ queued' = SubSeq(qs, k + 1, Len(qs))
            /\ npending' = np + k
            /\ ipc' = [i \in DOMAIN pcs |->
                           IF i \in go THEN "dispatched" ELSE pcs[i]]
            /\ UNCHANGED <<endCount, checkCalls, dpc, cbVars, checkResult,
                           printed>>

\* WorkQueue.dispatchNext after the queue holds qs with np tasks pending and
\* the collected errors are es.
dispatchNext(qs, np, pcs, es) ==
    IF np = 0 /\ Len(qs) = 0
    THEN /\ queued' = qs
         /\ npending' = np
         /\ ipc' = pcs
         /\ IF closed' THEN done(es)
            ELSE UNCHANGED <<endCount, checkCalls, dpc, cbVars, checkResult,
                             printed>>
    ELSE LET k == DispatchCount(Len(qs), np)
             go == {qs[j] : j \in 1..k}
         IN /\ queued' = SubSeq(qs, k + 1, Len(qs))
            /\ npending' = np + k
            /\ ipc' = [i \in DOMAIN pcs |->
                           IF i \in go THEN "dispatched" ELSE pcs[i]]
            /\ UNCHANGED <<endCount, checkCalls, dpc, cbVars, checkResult,
                           printed>>

\* for (i ...) q.push(self.images[i], onTaskComplete); q.close();
diExecute ==
    /\ UNCHANGED <<aaVars, sumVars>>
    /\ dpc = "init"
    /\ closed' = TRUE
    /\ IF N = 0
       THEN /\ done(errs)
            /\ UNCHANGED <<ipc, queued, npending>>
       ELSE LET k == DispatchCount(N, 0)
            IN /\ queued' = [j \in 1..(N - k) |-> k + j]
               /\ npending' = k
               /\ ipc' = [i \in Images |->
                              IF i <= k THEN "dispatched" ELSE "queued"]
               /\ dpc' = "running"
               /\ UNCHANGED <<endCount, checkCalls, cbVars, checkResult,
                              printed>>
    /\ UNCHANGED <<images, errs, workerCalls, completions, failed,
                   deleteCalls, importCalls>>

\* The task callback running a failed task again instead of completing it.
taskDoneRetry(i, hasErr, e) ==
    IF hasErr
    THEN /\ ipc' = [ipc EXCEPT ![i] = "dispatched"]
         /\ UNCHANGED <<queued, npending, closed, errs, completions, failed,
                        dpc, endCount, checkCalls, checkResult, printed,
                        cbVars>>
    ELSE /\ completions' = [completions EXCEPT ![i] = @ + 1]
         /\ failed' = [failed EXCEPT ![i] = hasErr]
         /\ errs' = errs
         /\ UNCHANGED closed
         /\ dispatchNext(queued, npending - 1, [ipc EXCEPT ![i] = "done"],
                         errs)

\* The task callback the queue hands to the worker: next(err) for image i.
taskDone(i, hasErr, e) ==
    LET es == IF hasErr THEN Append(errs, e) ELSE errs
    IN /\ completions' = [completions EXCEPT ![i] = @ + 1]
       /\ failed' = [failed EXCEPT ![i] = hasErr]
       /\ errs' = es
       /\ UNCHANGED closed
       /\ dispatchNext(queued, npending - 1, [ipc EXCEPT ![i] = "done"], es)

\* getImage: the call of adminImportRemoteImageAndWait for image i.
getImage(i) ==
    /\ importCalls' = [importCalls EXCEPT ![i] = @ + 1]
    /\ ipc' = [ipc EXCEPT ![i] = "importing"]
    /\ UNCHANGED <<dpc, queued, npending, closed, errs, completions, failed,
                   endCount, checkCalls, checkResult, printed, cbVars>>

\* deleteImage never skipping itself.
SkipDeleteNever(state) == FALSE

\* if (image.state !== 'unactivated') return nextStep();
SkipDelete(state) == state # "unactivated"

\* The worker is invoked for a dispatched image: importUpdateImage runs the
\* pipeline's first step, deleteImage, which is skipped for an image that is
\* not unactivated.
importUpdateImage(i) ==
    /\ UNCHANGED <<aaVars, sumVars>>
    /\ dpc = "running"
    /\ ipc[i] = "dispatched"
    /\ workerCalls' = [workerCalls EXCEPT ![i] = @ + 1]
    /\ IF SkipDelete(images[i])
       THEN /\ getImage(i)
            /\ UNCHANGED deleteCalls
       ELSE /\ deleteCalls' = [deleteCalls EXCEPT ![i] = @ + 1]
            /\ ipc' = [ipc EXCEPT ![i] = "deleting"]
            /\ UNCHANGED <<dpc, queued, npending, closed, errs, completions,
                           failed, importCalls, endCount, checkCalls,
                           checkResult, printed, cbVars>>
    /\ UNCHANGED images

\* The callback of sdcadm.imgapi.deleteImage for image i.
deleteImageReturns(i) ==
    /\ UNCHANGED <<aaVars, sumVars>>
    /\ dpc = "running"
    /\ ipc[i] = "deleting"
    /\ \/ /\ getImage(i)
          /\ UNCHANGED deleteCalls
       \/ /\ Len(errs) < MaxFailures
          /\ \E c \in CauseNames :
                 taskDone(i, TRUE, SDCClientError("deleteImage", i, c))
          /\ UNCHANGED <<deleteCalls, importCalls>>
    /\ UNCHANGED <<images, workerCalls>>

\* The callback of adminImportRemoteImageAndWait for image i.
getImageReturns(i) ==
    /\ UNCHANGED <<aaVars, sumVars>>
    /\ dpc = "running"
    /\ ipc[i] = "importing"
    /\ \/ /\ Len(errs) < MaxFailures
          /\ \E c \in CauseNames :
                 taskDone(i, TRUE, SDCClientError("importImage", i, c))
       \/ taskDone(i, FALSE, SDCClientError("importImage", i, "InternalError"))
    /\ UNCHANGED <<images, workerCalls, deleteCalls, importCalls>>

\* What done() hands to cb once checkMissingExternalNics came back with r.
CheckCallbackValue(r, es) ==
    IF r = "err" THEN BareArray(es) ELSE AggregatedError(es)

\* The callback of sdcadm.checkMissingExternalNics: an error, or res.doimgapi.
checkMissingExternalNicsReturns ==
    /\ UNCHANGED <<aaVars, sumVars>>
    /\ dpc = "checking"
    /\ \E r \in {"err", "true", "false"} :
          /\ checkResult' = r
          /\ printed' = IF r = "true" THEN printed + 1 ELSE printed
          /\ cbArg' = CheckCallbackValue(r, errs)
    /\ cbCalls' = cbCalls + 1
    /\ dpc' = "returned"
    /\ UNCHANGED <<images, ipc, queued, npending, closed, errs, workerCalls,
                   completions, failed, deleteCalls, importCalls, endCount,
                   checkCalls>>

\* Sizes in bytes a file of an image can have.
FileSizes == {1048576, 3145728}

\* The values of img.files: no file, one file, two files.
FileLists == {<< >>} \cup {<<a>> : a \in FileSizes}
                 \cup {<<a, b>> : a \in FileSizes, b \in FileSizes}

NoSummary == [status |-> "none", count |-> 0, size |-> 0]

\* img.files.length ? img.files[0].size : 0
FirstFileSize(fs) == IF Len(fs) > 0 THEN fs[1] ELSE 0

\* The array reduced from the left with prev + curr and no initial value,
\* the array not being empty.
RECURSIVE SumFrom(_, _)
SumFrom(sizes, k) ==
    IF k = Len(sizes) THEN sizes[k]
    ELSE sizes[k] + SumFrom(sizes, k + 1)

\* DownloadImages.summarize: Array.prototype.reduce without an initial
\* value throws a TypeError on an empty array; otherwise the summary names
\* images.length images and the summed size.
Summarize(fls) ==
    LET sizes == [i \in 1..Len(fls) |-> FirstFileSize(fls[i])]
    IN IF Len(sizes) = 0
       THEN [status |-> "threw", count |-> 0, size |-> 0]
       ELSE [status |-> "returned", count |-> Len(fls),
             size |-> SumFrom(sizes, 1)]

diSummarize ==
    /\ dpc # "off"
    /\ summary = NoSummary
    /\ summary' = Summarize(files)
    /\ UNCHANGED <<diVars, aaVars, cbVars, files>>

\* summarize is not applied.
SumIdle ==
    /\ files = << >>
    /\ summary = NoSummary

\* The images of a short array with their files.
SumInit ==
    /\ N <= MaxSumImages
    /\ files \in [Images -> FileLists]
    /\ summary = NoSummary

DiInit ==
    /\ images \in UNION {[1..n -> ImageStates] : n \in 0..MaxImages}
    /\ Cardinality({i \in DOMAIN images : images[i] = "unactivated"})
           <= MaxUnactivated
    /\ dpc = "init"
    /\ ipc = [i \in Images |-> "new"]
    /\ queued = << >>
    /\ npending = 0
    /\ closed = FALSE
    /\ errs = << >>
    /\ workerCalls = [i \in Images |-> 0]
    /\ completions = [i \in Images |-> 0]
    /\ failed = [i \in Images |-> FALSE]
    /\ deleteCalls = [i \in Images |-> 0]
    /\ importCalls = [i \in Images |-> 0]
    /\ endCount = 0
    /\ checkCalls = 0
    /\ checkResult = "none"
    /\ printed = 0

\* ------------------------------------------------- do_add_new_agent_svcs

AllAgentNames == <<"vm-agent", "net-agent", "cn-agent", "agents_core",
                   "amon-agent", "amon-relay", "cabase", "cainstsvc",
                   "config-agent", "firewaller", "hagfish-watcher",
                   "smartlogin">>

\* Object.keys(agentServices): the agents by position in agentNames.
Agents == 1..NumAgents
AgentName(a) == AllAgentNames[a]

NoImg == [branch |-> "none", date |-> 0]

\* img.version values: '<branch>-<date>...'
Versions == {[branch |-> b, date |-> d] :
                b \in {"master", "release", "feature"},
                d \in {MIN_VALID_SAPI_VERSION - 1, MIN_VALID_SAPI_VERSION}}

\* checkMinSapiVersion letting every version pass.
validSapiAlways(v) == TRUE

\* validSapi of checkMinSapiVersion
validSapi(v) ==
    IF v.branch = "master" THEN v.date >= MIN_VALID_SAPI_VERSION
    ELSE IF v.branch = "release" THEN v.date >= MIN_VALID_SAPI_VERSION
    ELSE FALSE

\* The record saveHistory calls back with for the changes it was given:
\* started, error unset.
HistoryRecord(chs) == [set |-> TRUE, changes |-> chs, error |-> Undefined]
NoHistory == [set |-> FALSE, changes |-> << >>, error |-> Undefined]

\* The entry saveChangesToHistory pushes for service s.
Change(s) ==
    [service |-> [name |-> AgentName(s), type |-> "agent"],
     type |-> "create-service"]

\* The forEach putting each change in front (unshift for push).
BuildChangesUnshift(chs, svcs) ==
    [k \in 1..Len(svcs) |-> Change(svcs[Len(svcs) + 1 - k])] \o chs

\* changes after newAgentServices.forEach(... changes.push ...)
BuildChanges(chs, svcs) ==
    chs \o [k \in 1..Len(svcs) |-> Change(svcs[k])]

\* The inputs forEachParallel has started func for when it returns, with
\* at most Concurrency of them started.
ParallelStartedCapped(inputs) ==
    {a \in inputs : Cardinality({b \in inputs : b < a}) < Concurrency}

\* The inputs forEachParallel has started func for when it returns: all.
ParallelStarted(inputs) == inputs

\* The errors of the failed operations of a forEachParallel, in input order;
\* name is the name SAPI's errors carry (the subcommand never reads it).
RECURSIVE FailedFrom(_, _, _, _)
FailedFrom(st, src, name, a) ==
    IF a > NumAgents THEN << >>
    ELSE (IF st[a] = "error" THEN <<Err("Error", src, a, name)>> ELSE << >>)
         \o FailedFrom(st, src, name, a + 1)

\* forEachParallel handing a sole failure to its callback as it is.
ParallelResultUnwrapSingle(st, src, name) ==
    LET es == FailedFrom(st, src, name, 1)
    IN IF Len(es) = 1 THEN Verbatim(es[1])
       ELSE IF Len(es) > 0 THEN MultiError(es) ELSE Undefined

\* What vasync.forEachParallel calls back with once every input is done:
\* null, or a MultiError over the failed operations in input order.
ParallelResult(st, src, name) ==
    LET es == FailedFrom(st, src, name, 1)
    IN IF Len(es) > 0 THEN MultiError(es) ELSE Undefined

\* The final callback without history.error = err.
FinalHistoryNoError(h, err) == h

\* The record handed to updateHistory: history.error = err when err is set.
FinalHistory(h, err) ==
    IF err # Undefined THEN [h EXCEPT !.error = err] ELSE h

\* The final callback going on after cb(err) when history is not set.
finalNoReturn(err, h) ==
    /\ pipelineErr' = err
    /\ history' = FinalHistory(h, err)
    /\ IF ~h.set
       THEN /\ cbCalls' = cbCalls + 1
            /\ cbArg' = err
       ELSE UNCHANGED cbVars
    /\ updateCalls' = updateCalls + 1
    /\ updateArg' = FinalHistory(h, err)
    /\ apc' = "updating"
    /\ UNCHANGED <<updateDone, updateErr>>

\* The final callback calling cb(err) at once, history set or not.
finalWithoutUpdate(err, h) ==
    /\ pipelineErr' = err
    /\ history' = FinalHistory(h, err)
    /\ cbCalls' = cbCalls + 1
    /\ cbArg' = err
    /\ apc' = "returned"
    /\ UNCHANGED <<updateCalls, updateArg, updateDone, updateErr>>

\* The pipeline's final callback with err, history being h.
final(err, h) ==
    /\ pipelineErr' = err
    /\ history' = FinalHistory(h, err)
    /\ IF ~h.set
       THEN /\ cbCalls' = cbCalls + 1
            /\ cbArg' = err
            /\ apc' = "returned"
            /\ UNCHANGED <<updateCalls, updateArg>>
       ELSE /\ updateCalls' = updateCalls + 1
            /\ updateArg' = FinalHistory(h, err)
            /\ apc' = "updating"
            /\ UNCHANGED cbVars
    /\ UNCHANGED <<updateDone, updateErr>>

\* The subcommand is invoked: help, too many args, or the pipeline starts
\* with getSapiVmImgs calling getImgsForSvcVms.
do_add_new_agent_svcs ==
    /\ UNCHANGED <<diVars, sumVars>>
    /\ apc = "init"
    /\ \E help \in BOOLEAN, nargs \in 0..2 :
          IF help
          THEN /\ cbCalls' = cbCalls + 1
               /\ cbArg' = Undefined
               /\ apc' = "returned"
          ELSE IF nargs > 1
          THEN /\ cbCalls' = cbCalls + 1
               /\ cbArg' = Verbatim(Err("UsageError", "args", nargs, ""))
               /\ apc' = "returned"
          ELSE /\ apc' = "getImgs"
               /\ UNCHANGED cbVars
    /\ UNCHANGED <<img, listState, newAgentServices, changes, savedChanges,
                   saveCalls, saveState, history, submitted, createState,
                   createCalls, pipelineErr, updateCalls, updateArg,
                   updateDone, updateErr>>

\* The callback of getImgsForSvcVms, then checkMinSapiVersion, then
\* checkExistingAgents starting one listServices query per agent.
getSapiVmImgsReturns ==
    /\ UNCHANGED <<diVars, sumVars>>
    /\ apc = "getImgs"
    /\ \/ /\ final(Verbatim(Err("Error", "getImgsForSvcVms", 0, "")), history)
          /\ UNCHANGED <<img, listState>>
       \/ \E v \in Versions :
             /\ img' = v
             /\ IF ~validSapi(v)
                THEN /\ final(Verbatim(SDCClientError("checkMinSapiVersion",
                                                       0, "Error")), history)
                     /\ UNCHANGED listState
                ELSE /\ listState' = [a \in Agents |->
                            IF a \in ParallelStarted(Agents) THEN "pending"
                            ELSE "idle"]
                     /\ apc' = "listing"
                     /\ UNCHANGED <<history, pipelineErr, updateCalls,
                                    updateArg, updateDone, updateErr, cbVars>>
    /\ UNCHANGED <<newAgentServices, changes, savedChanges, saveCalls,
                   saveState, submitted, createState, createCalls>>

\* The push without the !svcs.length test.
PushAlways(svcs, a, r) == Append(svcs, a)

\* if (!svcs.length) newAgentServices.push(agent), for the answer r.
PushIfMissing(svcs, a, r) ==
    IF r = "missing" THEN Append(svcs, a) ELSE svcs

\* The callback of listServices for one agent; with the last one in,
\* forEachParallel calls back and, without error, saveChangesToHistory runs.
listServicesReturns(a) ==
    /\ UNCHANGED <<diVars, sumVars>>
    /\ apc = "listing"
    /\ listState[a] = "pending"
    /\ \E r \in {"exists", "missing", "error"} :
          LET st == [listState EXCEPT ![a] = r]
              svcs == IF r = "error" THEN newAgentServices
                      ELSE PushIfMissing(newAgentServices, a, r)
          IN /\ listState' = st
             /\ newAgentServices' = svcs
             /\ IF \E b \in Agents : st[b] = "pending"
                THEN UNCHANGED <<apc, changes, savedChanges, saveCalls,
                                 saveState, history, pipelineErr, updateCalls,
                                 updateArg, updateDone, updateErr, cbVars>>
                ELSE IF ParallelResult(st, "listServices", "") # Undefined
                THEN /\ final(ParallelResult(st, "listServices", ""),
                              history)
                     /\ UNCHANGED <<changes, savedChanges, saveCalls,
                                    saveState>>
                ELSE /\ changes' = BuildChanges(changes, svcs)
                     /\ savedChanges' = BuildChanges(changes, svcs)
                     /\ saveCalls' = saveCalls + 1
                     /\ saveState' = "pending"
                     /\ apc' = "saving"
                     /\ UNCHANGED <<history, pipelineErr, updateCalls,
                                    updateArg, updateDone, updateErr, cbVars>>
    /\ UNCHANGED <<img, submitted, createState, createCalls>>

\* addAgentsServices, history being h: one createService call per input, or
\* with no input the pipeline ends.
addAgentsServices(h) ==
    LET go == ParallelStarted({newAgentServices[k] :
                                  k \in 1..Len(newAgentServices)})
    IN /\ submitted' = newAgentServices
       /\ IF go = {}
          THEN /\ final(Undefined, h)
               /\ UNCHANGED <<createState, createCalls>>
          ELSE /\ history' = h
               /\ createState' = [a \in Agents |->
                      IF a \in go THEN "pending" ELSE createState[a]]
               /\ createCalls' = [a \in Agents |->
                      IF a \in go THEN createCalls[a] + 1
                      ELSE createCalls[a]]
               /\ apc' = "creating"
               /\ UNCHANGED <<pipelineErr, updateCalls, updateArg,
                              updateDone, updateErr, cbVars>>

\* The callback of saveHistory without the if (err) return next(err).
saveHistoryCallbackNoCheck(r) ==
    addAgentsServices(IF r = "error" THEN history
                      ELSE HistoryRecord(savedChanges))

\* The callback of saveHistory with outcome r: if (err) return next(err);
\* history = hst; next() runs addAgentsServices.
saveHistoryCallback(r) ==
    IF r = "error"
    THEN /\ final(Verbatim(Err("Error", "saveHistory", 0, "")), history)
         /\ UNCHANGED <<submitted, createState, createCalls>>
    ELSE addAgentsServices(HistoryRecord(savedChanges))

saveHistoryReturns ==
    /\ UNCHANGED <<diVars, sumVars>>
    /\ apc = "saving"
    /\ \E r \in {"ok", "error"} :
          /\ saveState' = r
          /\ saveHistoryCallback(r)
    /\ UNCHANGED <<img, listState, newAgentServices, changes, savedChanges,
                   saveCalls>>

\* The callback of createService for one agent; with the last one in,
\* forEachParallel calls back and the pipeline ends.
createServiceReturns(a) ==
    /\ UNCHANGED <<diVars, sumVars>>
    /\ apc = "creating"
    /\ createState[a] = "pending"
    /\ \E r \in {"ok", "error"} :
          LET st == [createState EXCEPT ![a] = r]
          IN /\ createState' = st
             /\ IF \E b \in Agents : st[b] = "pending"
                THEN UNCHANGED <<apc, history, pipelineErr, updateCalls,
                                 updateArg, updateDone, updateErr, cbVars>>
                ELSE \E name \in CauseNames :
                        final(ParallelResult(st, "createService", name),
                              history)
    /\ UNCHANGED <<img, listState, newAgentServices, changes, savedChanges,
                   saveCalls, saveState, submitted, createCalls>>

\* The callback of updateHistory testing err2 before err.
FinalCbValueErr2First(err, err2) ==
    IF err2 # Undefined THEN err2
    ELSE IF err # Undefined THEN err
    ELSE Undefined

\* What the callback of updateHistory hands to cb.
FinalCbValue(err, err2) ==
    IF err # Undefined THEN err
    ELSE IF err2 # Undefined THEN err2
    ELSE Undefined

\* The callback of updateHistory.
updateHistoryReturns ==
    /\ UNCHANGED <<diVars, sumVars>>
    /\ apc = "updating"
    /\ \E err2 \in {Undefined, Verbatim(Err("Error", "updateHistory", 0, ""))} :
          /\ updateErr' = err2
          /\ cbArg' = FinalCbValue(pipelineErr, err2)
    /\ cbCalls' = cbCalls + 1
    /\ updateDone' = TRUE
    /\ apc' = "returned"
    /\ UNCHANGED <<img, listState, newAgentServices, changes, savedChanges,
                   saveCalls, saveState, history, submitted, createState,
                   createCalls, pipelineErr, updateCalls, updateArg>>

AaInit ==
    /\ apc = "init"
    /\ img = NoImg
    /\ listState = [a \in Agents |-> "idle"]
    /\ newAgentServices = << >>
    /\ changes = << >>
    /\ savedChanges = << >>
    /\ saveCalls = 0
    /\ saveState = "idle"
    /\ history = NoHistory
    /\ submitted = << >>
    /\ createState = [a \in Agents |-> "idle"]
    /\ createCalls = [a \in Agents |-> 0]
    /\ pipelineErr = Undefined
    /\ updateCalls = 0
    /\ updateArg = NoHistory
    /\ updateDone = FALSE
    /\ updateErr = Undefined

AaNext ==
    \/ do_add_new_agent_svcs
    \/ getSapiVmImgsReturns
    \/ \E a \in Agents : listServicesReturns(a)
    \/ saveHistoryReturns
    \/ \E a \in Agents : createServiceReturns(a)
    \/ updateHistoryReturns

\* The subcommand is not run.
AaIdle ==
    /\ apc = "off"
    /\ img = NoImg
    /\ listState = [a \in Agents |-> "idle"]
    /\ newAgentServices = << >>
    /\ changes = << >>
    /\ savedChanges = << >>
    /\ saveCalls = 0
    /\ saveState = "idle"
    /\ history = NoHistory
    /\ submitted = << >>
    /\ createState = [a \in Agents |-> "idle"]
    /\ createCalls = [a \in Agents |-> 0]
    /\ pipelineErr = Undefined
    /\ updateCalls = 0
    /\ updateArg = NoHistory
    /\ updateDone = FALSE
    /\ updateErr = Undefined

\* DownloadImages is not run.
DiIdle ==
    /\ images = << >>
    /\ dpc = "off"
    /\ ipc = << >>
    /\ queued = << >>
    /\ npending = 0
    /\ closed = FALSE
    /\ errs = << >>
    /\ workerCalls = << >>
    /\ completions = << >>
    /\ failed = << >>
    /\ deleteCalls = << >>
    /\ importCalls = << >>
    /\ endCount = 0
    /\ checkCalls = 0
    /\ checkResult = "none"
    /\ printed = 0

CbInit ==
    /\ cbCalls = 0
    /\ cbArg = Undefined

DiNext ==
    \/ diExecute
    \/ \E i \in Images : importUpdateImage(i)
    \/ \E i \in Images : deleteImageReturns(i)
    \/ \E i \in Images : getImageReturns(i)
    \/ checkMissingExternalNicsReturns

InitDI == DiInit /\ SumIdle /\ AaIdle /\ CbInit
NextDI == DiNext
SpecDI == InitDI /\ [][NextDI]_vars

InitAA == DiIdle /\ SumIdle /\ AaInit /\ CbInit
NextAA == AaNext
SpecAA == InitAA /\ [][NextAA]_vars

InitSummarize == DiInit /\ SumInit /\ AaIdle /\ CbInit
NextSummarize == diSummarize \/ DiNext
SpecSummarize == InitSummarize /\ [][NextSummarize]_vars

Init == InitDI \/ InitAA
Next == NextDI \/ NextAA
Spec == Init /\ [][Next]_vars

\* ------------------------------------------------------------ properties

\* The importUpdateImage workers started and not yet completed.
Running == {i \in Images : ipc[i] \in {"deleting", "importing"}}

\* The images onTaskComplete got an error for.
Failing == {i \in Images : failed[i]}

\* cb has been invoked by DownloadImages.execute.
DiReturned == dpc = "returned"

\* C1: in DownloadImages.execute at no instant are more than 4 workers
\* executing; no image gets a second outcome; while the queue has not ended
\* some remote call is outstanding whose callback can run (every step
\* advances an image, so all N images get their outcome under any completion
\* order); and when the queue has ended every image has exactly one outcome,
\* success or failure.
C1_BoundedWorkersAllTerminal ==
    /\ Cardinality(Running) <= 4
    /\ \A i \in Images : completions[i] <= 1
    /\ dpc = "running" =>
          /\ ENABLED DiNext
          /\ Running # {} \/ \E i \in Images : ipc[i] = "dispatched"
    /\ dpc \in {"checking", "returned"} =>
          \A i \in Images : /\ completions[i] = 1
                            /\ ipc[i] = "done"
                            /\ failed[i] <=> \E k \in 1..Len(errs) :
                                                errs[k].id = i

\* C1 witness: more images than slots, all of them with their one outcome,
\* failures and successes among them.
C1_Witness ==
    /\ DiReturned
    /\ N > 4
    /\ \A i \in Images : completions[i] = 1
    /\ Failing # {} /\ Failing # Images

\* C2: whatever checkMissingExternalNics calls back with, cb gets the
\* aggregated error (the sole error, or the composite) it would have got
\* had no failure carried the signature.
C2_DiagnosisKeepsError ==
    (DiReturned /\ checkCalls > 0) => cbArg = AggregatedError(errs)

\* C3: if exactly one image failed, cb gets that image's own error object,
\* not wrapped.
C3_SingleFailureVerbatim ==
    (DiReturned /\ Cardinality(Failing) = 1) =>
        /\ cbArg.kind = "error"
        /\ cbArg.errs = errs
        /\ \A i \in Failing : errs[1].id = i

\* C4: errs grows only by the error of the image completing in that step,
\* put last (so it is in completion order), and when cb is invoked with two
\* or more images failed it gets a MultiError over exactly that list.
C4_CompositeInCompletionOrder ==
    [][/\ \A i \in Images :
             (completions'[i] = completions[i] + 1 /\ failed'[i]) =>
                 /\ Len(errs') = Len(errs) + 1
                 /\ SubSeq(errs', 1, Len(errs)) = errs
                 /\ errs'[Len(errs')].id = i
       /\ (\A i \in Images : ~(completions'[i] # completions[i] /\ failed'[i]))
             => errs' = errs
       /\ (cbCalls' = cbCalls + 1 /\ Cardinality(Failing') >= 2) =>
             /\ cbArg'.kind = "MultiError"
             /\ cbArg'.errs = errs'
             /\ Len(errs') = Cardinality(Failing')]_vars

\* The agents whose listServices query returned an empty list.
Missing == {a \in Agents : listState[a] = "missing"}

\* The agents createService has been called for.
Created == {a \in Agents : createCalls[a] > 0}

\* addAgentsServices has run.
AddReached == saveState = "ok"

\* C5: createService is never called for an agent whose query did not
\* return an empty list; once addAgentsServices has run it has been called
\* for exactly the agents whose query returned an empty list, once each;
\* and with every service existing the work list is empty and no
\* createService call is made.
C5_CreateExactlyMissing ==
    /\ Created \subseteq Missing
    /\ AddReached =>
          /\ Created = Missing
          /\ \A a \in Missing : createCalls[a] = 1
    /\ (\A a \in Agents : listState[a] = "exists") =>
          /\ newAgentServices = << >>
          /\ Created = {}

\* C5 witness: the run is over, some services existed and some did not, and
\* the missing ones were created.
C5_Witness ==
    /\ apc = "returned"
    /\ AddReached
    /\ Missing # {} /\ Missing # Agents
    /\ Created = Missing

\* C6: no createService call is made before saveHistory has succeeded; if
\* saveHistory failed none is ever made and cb gets the saveHistory error.
C6_SaveBeforeCreate ==
    /\ Created # {} => saveState = "ok"
    /\ saveState = "error" =>
          /\ Created = {}
          /\ apc = "returned"
          /\ cbCalls = 1
          /\ cbArg = Verbatim(Err("Error", "saveHistory", 0, ""))

\* C6 witness: saveHistory failed although services were missing.
C6_Witness ==
    /\ saveState = "error"
    /\ Missing # {}
    /\ apc = "returned"

\* The service names of a list of changes, in order.
ChangeNames(chs) == [k \in 1..Len(chs) |-> chs[k].service.name]

\* C7: the changes saveHistory was called with are, in length, names and
\* order, the agent services then submitted for creation, and the changes
\* list stays what it was at that call.
C7_ChangesEqualSubmitted ==
    /\ saveCalls > 0 =>
          /\ changes = savedChanges
          /\ \A k \in 1..Len(savedChanges) :
                savedChanges[k].type = "create-service"
    /\ AddReached =>
          /\ Len(savedChanges) = Len(submitted)
          /\ ChangeNames(savedChanges) =
                [k \in 1..Len(submitted) |-> AgentName(submitted[k])]
          /\ history.changes = savedChanges

\* C7 witness: two or more services were submitted, not in agentNames order.
C7_Witness ==
    /\ AddReached
    /\ Len(submitted) >= 2
    /\ submitted[1] > submitted[2]
    /\ Created # {}

\* C8: once saveHistory has succeeded updateHistory is called exactly once,
\* only after every started createService call has come back, and cb is
\* invoked only after updateHistory's callback has fired.
C8_UpdateOnceAfterDrain ==
    /\ updateCalls <= 1
    /\ updateCalls > 0 =>
          /\ saveState = "ok"
          /\ \A a \in Agents : createState[a] # "pending"
    /\ (AddReached /\ apc \in {"updating", "returned"}) => updateCalls = 1
    /\ (AddReached /\ apc = "creating") =>
          /\ updateCalls = 0
          /\ \E a \in Agents : createState[a] = "pending"
    /\ (AddReached /\ cbCalls > 0) => (updateDone /\ updateCalls = 1)
    /\ updateDone => cbCalls = 1

\* C8 witness: a createService call failed, history was updated and the
\* caller called back.
C8_Witness ==
    /\ AddReached
    /\ \E a \in Agents : createState[a] = "error"
    /\ updateDone
    /\ cbCalls = 1

\* The agents whose createService call failed.
CreateFailed == {a \in Agents : createState[a] = "error"}

\* C9: the record handed to updateHistory carries as error the work error
\* the caller gets when a createService call failed, and no error when
\* every createService call succeeded.
C9_HistoryErrorIsWorkError ==
    updateCalls > 0 =>
        /\ CreateFailed # {} =>
              /\ updateArg.error # Undefined
              /\ {updateArg.error.errs[k].id :
                     k \in 1..Len(updateArg.error.errs)} = CreateFailed
              /\ apc = "returned" => cbArg = updateArg.error
        /\ CreateFailed = {} => updateArg.error = Undefined
        /\ updateArg.changes = savedChanges

\* C9 witness: a createService call failed and the caller has its error.
C9_Witness ==
    /\ apc = "returned"
    /\ updateCalls > 0
    /\ CreateFailed # {}
    /\ Created # CreateFailed

\* C10: with all work succeeded and updateHistory failing cb gets the
\* updateHistory error; with the work and updateHistory both failing cb
\* gets the work error.
C10_UpdateErrorSurfaces ==
    (updateDone /\ updateErr # Undefined) =>
        /\ CreateFailed = {} => cbArg = updateErr
        /\ CreateFailed # {} =>
              /\ cbArg = pipelineErr
              /\ cbArg.kind = "MultiError"
              /\ \A k \in 1..Len(cbArg.errs) :
                    cbArg.errs[k].src = "createService"

\* C10 witness: a createService call and updateHistory both failed.
C10_Witness ==
    /\ updateDone
    /\ updateErr # Undefined
    /\ CreateFailed # {}

\* C11: a failed unit holds no other unit back. In DownloadImages.execute
\* an image waits in the queue only while 4 others are pending, whatever has
\* failed, and when the queue has ended the worker of every pushed image was
\* started; in do_add_new_agent_svcs createService is called for every
\* missing agent at once and the run goes on until each call is back,
\* whatever has failed.
C11_FailSoft ==
    /\ (dpc = "running" /\ queued # << >>) => npending = 4
    /\ dpc \in {"checking", "returned"} =>
          \A i \in Images : workerCalls[i] = 1
    /\ AddReached => \A a \in Missing : createCalls[a] = 1
    /\ (apc \in {"updating", "returned"} /\ AddReached) =>
          \A a \in Missing : createState[a] \in {"ok", "error"}

\* C11 witness: the first image failed and the worker of the fifth, which
\* waited in the queue, was started all the same and succeeded.
C11_Witness ==
    /\ DiReturned
    /\ N = 5
    /\ failed[1]
    /\ workerCalls[5] = 1 /\ ~failed[5]

\* C12: for one image the steps run deleteImage then getImage: after a
\* failed delete the import call is never made for that image and the
\* image's outcome is that failure, tagged with the image; for an image not
\* in state 'unactivated' deleteImage is never called and the import call is
\* made.
C12_DeleteThenGet ==
    \A i \in Images :
        /\ ipc[i] = "deleting" => importCalls[i] = 0
        /\ (images[i] = "unactivated" /\ importCalls[i] > 0) =>
              deleteCalls[i] = 1
        /\ \A k \in 1..Len(errs) :
              (errs[k].id = i /\ errs[k].src = "deleteImage") =>
                  /\ importCalls[i] = 0
                  /\ failed[i]
                  /\ errs[k].type = "SDCClientError"
                  /\ \A j \in 1..Len(errs) : errs[j].id = i => j = k
        /\ images[i] # "unactivated" =>
              /\ deleteCalls[i] = 0
              /\ workerCalls[i] = 1 => importCalls[i] = 1

\* C12 witness: the delete of an unactivated image failed, and another
\* image, not unactivated, was imported without a delete.
C12_Witness ==
    /\ DiReturned
    /\ \E i \in Images :
          /\ images[i] = "unactivated"
          /\ deleteCalls[i] = 1 /\ importCalls[i] = 0 /\ failed[i]
    /\ \E i \in Images :
          /\ images[i] = "active"
          /\ deleteCalls[i] = 0 /\ importCalls[i] = 1

\* A collected failure has a cause named RemoteSourceError.
SignatureSeen == \E k \in 1..Len(errs) : errs[k].cause = "RemoteSourceError"

\* C13: once the queue has ended checkMissingExternalNics has been called
\* exactly once if a collected failure has a cause named RemoteSourceError,
\* however many have, and never if none has; the remediation message is
\* printed at most once, and only when the check came back without error
\* and with doimgapi true.
C13_DiagnosisOnce ==
    /\ checkCalls <= 1
    /\ dpc \in {"init", "running"} => checkCalls = 0
    /\ dpc \in {"checking", "returned"} =>
          checkCalls = (IF SignatureSeen THEN 1 ELSE 0)
    /\ printed <= 1
    /\ printed = 1 <=> checkResult = "true"
    /\ checkResult # "none" => (DiReturned /\ checkCalls = 1)

\* C13 witness: two failures carry the signature, the check ran once and
\* the message was printed once.
C13_Witness ==
    /\ DiReturned
    /\ Len(errs) = 2
    /\ \A k \in 1..2 : errs[k].cause = "RemoteSourceError"
    /\ checkCalls = 1
    /\ printed = 1

\* The run of do_add_new_agent_svcs is over with the createService call of
\* exactly one agent, y, failed with a cause named RemoteSourceError and
\* that of another agent succeeded.
OneCreateFailedWithSignature(y) ==
    /\ apc = "returned"
    /\ AddReached
    /\ CreateFailed = {y}
    /\ pipelineErr.errs[1].cause = "RemoteSourceError"
    /\ \E x \in Missing : createState[x] = "ok"

ListOutstanding == {a \in Agents : listState[a] = "pending"}
CreateOutstanding == {a \in Agents : createState[a] = "pending"}

DeleteFailed ==
    {i \in Images : \E k \in 1..Len(errs) :
                       errs[k].id = i /\ errs[k].src = "deleteImage"}

\* C16: no unit's work is run twice and no failed step is tried again: per
\* image the worker, deleteImage and adminImportRemoteImageAndWait are each
\* called at most once, and when the queue has ended the import was called
\* exactly once for every image whose delete step did not fail, whether the
\* image failed or not; createService is called at most once per agent and,
\* once addAgentsServices has run, exactly once per missing agent.
C16_ExactlyOnceNoRetry ==
    /\ \A i \in Images :
          /\ workerCalls[i] <= 1
          /\ deleteCalls[i] <= 1
          /\ importCalls[i] <= 1
          /\ dpc \in {"checking", "returned"} =>
                /\ workerCalls[i] = 1
                /\ importCalls[i] = (IF i \in DeleteFailed THEN 0 ELSE 1)
    /\ \A a \in Agents :
          /\ createCalls[a] <= 1
          /\ (AddReached /\ a \in Missing) => createCalls[a] = 1
          /\ (AddReached /\ a \notin Missing) => createCalls[a] = 0

\* C16 witness: the import of an image failed after its one call and the
\* run is over.
C16_Witness ==
    /\ DiReturned
    /\ \E i \in Images :
          /\ failed[i]
          /\ i \notin DeleteFailed
          /\ importCalls[i] = 1
          /\ workerCalls[i] = 1

\* C17: an empty images array is no failure: summarize returns a summary
\* of 0 images with a total size of zero, and execute makes no remote call
\* and calls cb without error.
C17_EmptyIsNoOp ==
    N = 0 =>
        /\ summary.status # "none" =>
              summary = [status |-> "returned", count |-> 0, size |-> 0]
        /\ DiReturned =>
              /\ cbCalls = 1
              /\ cbArg = Undefined
              /\ checkCalls = 0

\* C18: 'end' is emitted once, only after onTaskComplete has run for every
\* pushed image, so that errs holds the failure of every failed image, one
\* each, when the aggregated error is built; and the list cb was given is
\* the list as it is ever after: nothing is added once cb was invoked.
C18_FinalizedAfterDrain ==
    /\ endCount <= 1
    /\ dpc \in {"init", "running"} => (endCount = 0 /\ cbCalls = 0)
    /\ endCount >= 1 =>
          /\ \A i \in Images : completions[i] = 1 /\ ipc[i] = "done"
          /\ npending = 0 /\ queued = << >>
          /\ Len(errs) = Cardinality(Failing)
          /\ \A i \in Failing : \E k \in 1..Len(errs) : errs[k].id = i
    /\ DiReturned => cbArg.errs = errs

\* C18 witness: five images, the one that waited in the queue failed, and
\* cb has the list with its failure.
C18_Witness ==
    /\ DiReturned
    /\ N = 5
    /\ failed[5]
    /\ Len(errs) = 2
    /\ cbArg.errs = errs

\* C19: cb is invoked at most once, not before the run is over, and exactly
\* once when it is; a run that is not over has its first step to take or a
\* call outstanding whose callback has yet to run, so every path ends with
\* the one invocation of cb.
C19_CallbackExactlyOnce ==
    /\ cbCalls <= 1
    /\ dpc \in {"init", "running", "checking"} => cbCalls = 0
    /\ dpc = "running" =>
          (Running # {} \/ \E i \in Images : ipc[i] = "dispatched")
    /\ dpc = "checking" => (checkCalls = 1 /\ checkResult = "none")
    /\ dpc = "returned" => cbCalls = 1
    /\ apc \in {"init", "getImgs", "listing", "saving", "creating",
                "updating"} => cbCalls = 0
    /\ apc = "listing" => ListOutstanding # {}
    /\ apc = "saving" => (saveCalls = 1 /\ saveState = "pending")
    /\ apc = "creating" => CreateOutstanding # {}
    /\ apc = "updating" => (updateCalls = 1 /\ ~updateDone)
    /\ apc = "returned" => cbCalls = 1

\* C19 witness: the work and updateHistory both failed and cb was invoked
\* once.
C19_Witness ==
    /\ apc = "returned"
    /\ updateDone
    /\ updateErr # Undefined
    /\ pipelineErr # Undefined
    /\ cbCalls = 1

\* saveHistory, createService and updateHistory have not been called.
NoneCalled == saveCalls = 0 /\ Created = {} /\ updateCalls = 0

\* The version of the SAPI image is below the minimum.
BelowMinimum ==
    /\ img # NoImg
    /\ ~ /\ img.branch \in {"master", "release"}
         /\ img.date >= 20140703

\* The agents whose listServices query failed.
ListFailed == {a \in Agents : listState[a] = "error"}

\* C20: if fetching the SAPI image fails, the image's version is below the
\* minimum, or a listServices query fails, then saveHistory, createService
\* and updateHistory are never called and, the run over, the caller has
\* that error; a failed query keeps every agent from being created.
C20_EarlyFailureStopsRun ==
    /\ (pipelineErr # Undefined
           /\ pipelineErr.errs[1].src = "getImgsForSvcVms") =>
          /\ NoneCalled
          /\ img = NoImg
          /\ \A a \in Agents : listState[a] = "idle"
          /\ apc = "returned" /\ cbArg = pipelineErr
    /\ BelowMinimum =>
          /\ NoneCalled
          /\ \A a \in Agents : listState[a] = "idle"
          /\ apc = "returned"
          /\ cbArg.kind = "error"
          /\ cbArg.errs[1].src = "checkMinSapiVersion"
    /\ ListFailed # {} =>
          /\ NoneCalled
          /\ apc \in {"listing", "returned"}
          /\ apc = "returned" =>
                /\ cbArg.kind = "MultiError"
                /\ {cbArg.errs[k].id : k \in 1..Len(cbArg.errs)} = ListFailed
                /\ \A k \in 1..Len(cbArg.errs) :
                      cbArg.errs[k].src = "listServices"
    /\ (img # NoImg /\ ~BelowMinimum) => apc # "getImgs"

\* C20 witness: one query failed, other agents were found missing, and the
\* run is over without a createService call.
C20_Witness ==
    /\ apc = "returned"
    /\ Cardinality(ListFailed) = 1
    /\ Missing # {}
    /\ Created = {}

====
